---- MODULE Spec2Model ----
(***************************************************************************)
(* A model of skeema's configuration cascading and target resolution:     *)
(*   - Dir.Targets and DiffHandler (dir.go, diff.go): a worker goroutine   *)
(*     walks the directory tree and hands Targets to the diff loop over an *)
(*     unbuffered channel.                                                 *)
(***************************************************************************)
EXTENDS Integers, Sequences, FiniteSets, TLC

(***************************************************************************)
(* Bounds of the model.                                                    *)
(***************************************************************************)
MaxLeaves == 3
MaxTableDiffs == 2
MaxPrefixes == 2
MaxOverrides == 1
MaxDepth == 3
MaxDirs == 4
MaxOps == 3
MaxPathLen == 2

(***************************************************************************)
(* Generic helpers.                                                        *)
(***************************************************************************)
Range(a, b) == [i \in 1..(b - a + 1) |-> a + i - 1]

SeqsUpTo(S, n) == UNION {[1..k -> S] : k \in 0..n}

RECURSIVE CountIn(_, _)
CountIn(s, S) ==
  IF s = <<>> THEN 0
  ELSE (IF Head(s) \in S THEN 1 ELSE 0) + CountIn(Tail(s), S)

(***************************************************************************)
(* Strings are sequences of one-character strings, so that splitting,      *)
(* trimming, case folding and prefix tests work on characters as the Go    *)
(* library functions do.                                                   *)
(***************************************************************************)
RECURSIVE Concat(_)
Concat(ss) == IF ss = <<>> THEN <<>> ELSE Head(ss) \o Concat(Tail(ss))

Uppers == <<"A","B","C","D","E","F","G","H","I","J","K","L","M",
            "N","O","P","Q","R","S","T","U","V","W","X","Y","Z">>
Lowers == <<"a","b","c","d","e","f","g","h","i","j","k","l","m",
            "n","o","p","q","r","s","t","u","v","w","x","y","z">>

\* strings.ToLower
ToLowerChar(c) ==
  IF \E i \in 1..Len(Uppers) : Uppers[i] = c
    THEN Lowers[CHOOSE i \in 1..Len(Uppers) : Uppers[i] = c]
    ELSE c
ToLower(s) == [i \in 1..Len(s) |-> ToLowerChar(s[i])]

\* unicode.IsSpace, on the characters the model uses
IsSpace(c) == c \in {" ", "\t", "\n"}

\* strings.TrimFunc(s, unicode.IsSpace)
RECURSIVE TrimLeft(_)
TrimLeft(s) ==
  IF s # <<>> /\ IsSpace(Head(s)) THEN TrimLeft(Tail(s)) ELSE s
RECURSIVE TrimRight(_)
TrimRight(s) ==
  IF s # <<>> /\ IsSpace(s[Len(s)]) THEN TrimRight(SubSeq(s, 1, Len(s) - 1)) ELSE s
TrimSpaceOnce(s) ==
  LET l == IF s # <<>> /\ IsSpace(Head(s)) THEN Tail(s) ELSE s
  IN  IF l # <<>> /\ IsSpace(l[Len(l)]) THEN SubSeq(l, 1, Len(l) - 1) ELSE l
TrimSpace(s) == TrimRight(TrimLeft(s))

\* strings.HasPrefix, and s[n:]
HasPrefix(s, p) == Len(s) >= Len(p) /\ SubSeq(s, 1, Len(p)) = p
Drop(s, n) == SubSeq(s, n + 1, Len(s))

\* strings.Index for a one-character separator: 0 when absent
IndexOf(s, c) ==
  IF \E i \in 1..Len(s) : s[i] = c
    THEN CHOOSE i \in 1..Len(s) : s[i] = c /\ \A j \in 1..(i - 1) : s[j] # c
    ELSE 0

\* strings.SplitN(s, sep, 2)
SplitN2(s, sep) ==
  LET i == IndexOf(s, sep)
  IN  IF i = 0 THEN <<s>> ELSE <<SubSeq(s, 1, i - 1), Drop(s, i)>>

\* strings.Replace(s, old, new, -1) for one-character old and new
ReplaceChar(s, old, new) == [i \in 1..Len(s) |-> IF s[i] = old THEN new ELSE s[i]]

\* strings.Index: the first position of sub in s, 0 when absent
FindSub(s, sub) ==
  LET at(i) == SubSeq(s, i, i + Len(sub) - 1) = sub
      last == Len(s) - Len(sub) + 1
  IN  IF \E i \in 1..last : at(i)
        THEN CHOOSE i \in 1..last : at(i) /\ \A j \in 1..(i - 1) : ~at(j)
        ELSE 0

Contains(s, sub) == FindSub(s, sub) # 0

\* strings.Replace(s, old, new, 1)
ReplaceFirst(s, old, new) ==
  LET i == FindSub(s, old)
  IN  IF old = <<>> THEN new \o s
      ELSE IF i = 0 THEN s
      ELSE SubSeq(s, 1, i - 1) \o new \o Drop(s, i - 1 + Len(old))

\* strconv.Atoi on an unsigned decimal string, and fmt's %d
Digits == <<"0","1","2","3","4","5","6","7","8","9">>
IsDigit(c) == \E i \in 1..10 : Digits[i] = c
DigitVal(c) == (CHOOSE i \in 1..10 : Digits[i] = c) - 1
IsNumber(s) == s # <<>> /\ \A i \in 1..Len(s) : IsDigit(s[i])
RECURSIVE Atoi(_)
Atoi(s) ==
  IF s = <<>> THEN 0 ELSE 10 * Atoi(SubSeq(s, 1, Len(s) - 1)) + DigitVal(s[Len(s)])
RECURSIVE Itoa(_)
Itoa(n) ==
  IF n < 10 THEN <<Digits[n + 1]>> ELSE Itoa(n \div 10) \o <<Digits[(n % 10) + 1]>>

(***************************************************************************)
(* Target resolution and the diff loop.                                    *)
(*                                                                         *)
(* The tree: node 0 is the root, nodes 1..nLeaves are the leaf directories *)
(* (host and schema configured), and when split > 0 the first `split`      *)
(* leaves sit under an intermediate directory, node nLeaves+1.  `failing`  *)
(* are the leaves whose resolution fails.                                  *)
(***************************************************************************)
VARIABLES
  nLeaves, split, failing,   \* the directory tree under the root Dir
  workers,                   \* goroutines started by Targets()
  wpc, stack, pending,       \* the worker: position, walk stack, Target being sent
  buf, closed, closeCount,   \* the channel `targets`
  emitted,                   \* Targets the channel has accepted, in order
  cpc, cur, received,        \* DiffHandler: position, loop variable t, Targets received
  errCount, diffCount, ret,  \* DiffHandler's counters and return value
  sawErr, sawDiff, early     \* history: an error happened, a statement was generated,
                             \* DiffHandler returned from inside the range loop

varsT == <<nLeaves, split, failing, workers, wpc, stack, pending, buf, closed,
           closeCount, emitted, cpc, cur, received, errCount, diffCount, ret,
           sawErr, sawDiff, early>>

VARIABLES
  arg,      \* the raw token given to NormalizeOptionToken
  nphase,   \* "raw", "normalized", "renormalized"
  norm,     \* NormalizeOptionToken(arg)
  renorm    \* NormalizeOptionToken of the canonical token built from norm

varsN == <<arg, nphase, norm, renorm>>

VARIABLES
  icfg,       \* dir.Config of the directory whose instance is asked for
  overrides,  \* sources added to it since it was built
  ikey,       \* what InstanceKey returned
  fiRes,      \* what FirstInstance returned
  fiPath      \* history: the path FirstInstance took

varsI == <<icfg, overrides, ikey, fiRes, fiPath>>

VARIABLES
  fs, home, cwd,   \* the filesystem, $HOME and the working directory
  cfgHeap,         \* the configurations, by index; index 1 is the base
  dirs,            \* the Dir values built so far
  opsLeft,         \* calls the callers still make
  lastCall         \* history: the last call and its outcome

varsD == <<fs, home, cwd, cfgHeap, dirs, opsLeft, lastCall>>

\* What the actions of one part leave unchanged of the others.
FrameT == UNCHANGED <<varsN, varsI, varsD>>
FrameN == UNCHANGED <<varsT, varsI, varsD>>
FrameI == UNCHANGED <<varsT, varsN, varsD>>
FrameD == UNCHANGED <<varsT, varsN, varsI>>

NoTarget == [dir |-> -1, err |-> FALSE]

\* make(chan Target): the channel is unbuffered.
ChanCapBuffered == 0 + 1
ChanCap == 0

Root == 0
Inner == nLeaves + 1
IsLeaf(node) == node \in 1..nLeaves

\* Dir.Subdirs of a node of the tree, in listing order.
Children(node) ==
  IF node = Root
    THEN (IF split > 0 THEN <<Inner>> \o Range(split + 1, nLeaves)
                       ELSE Range(1, nLeaves))
    ELSE IF node = Inner /\ split > 0 THEN Range(1, split)
    ELSE <<>>

\* The Target a leaf directory resolves to: it carries an error iff the
\* directory fails to resolve (FirstInstance, schema lookup or SQL files).
ResolveTarget(leaf) == [dir |-> leaf, err |-> leaf \in failing]

StartT ==
  /\ workers = 0
  /\ wpc = "idle"
  /\ stack = <<>>
  /\ pending = NoTarget
  /\ buf = <<>>
  /\ closed = FALSE
  /\ closeCount = 0
  /\ emitted = <<>>
  /\ cpc = "start"
  /\ cur = NoTarget
  /\ received = <<>>
  /\ errCount = 0
  /\ diffCount = 0
  /\ ret = "none"
  /\ sawErr = FALSE
  /\ sawDiff = FALSE
  /\ early = FALSE

InitT ==
  /\ nLeaves \in 0..MaxLeaves
  /\ split \in 0..nLeaves
  /\ failing \in SUBSET (1..nLeaves)
  /\ StartT

\* No diff command is run.
IdleT == nLeaves = 0 /\ split = 0 /\ failing = {} /\ StartT

\* DiffHandler up to the range statement: NewDir(".") may fail; otherwise
\* dir.Targets(false, false) makes the channel and starts the worker.
DiffStart ==
  /\ cpc = "start"
  /\ \E newDirOk \in BOOLEAN :
       IF newDirOk
         THEN /\ workers' = workers + 1
              /\ wpc' = "walk"
              /\ stack' = <<Root>>
              /\ cpc' = "recv"
              /\ UNCHANGED <<ret, sawErr, early>>
         ELSE /\ ret' = "err"
              /\ sawErr' = TRUE
              /\ early' = TRUE
              /\ cpc' = "returned"
              /\ UNCHANGED <<workers, wpc, stack>>
  /\ UNCHANGED <<nLeaves, split, failing, pending, buf, closed, closeCount,
                 emitted, cur, received, errCount, diffCount, sawDiff>>
  /\ FrameT

\* generateTargetsForDir: one step of the depth-first walk.  A leaf is
\* resolved into a Target that the worker then sends; any other directory
\* is expanded into its subdirectories.
WalkStep ==
  /\ wpc = "walk"
  /\ stack # <<>>
  /\ LET node == Head(stack) IN
       IF IsLeaf(node)
         THEN /\ pending' = ResolveTarget(node)
              /\ wpc' = "send"
              /\ stack' = Tail(stack)
         ELSE /\ stack' = Children(node) \o Tail(stack)
              /\ UNCHANGED <<pending, wpc>>
  /\ UNCHANGED <<nLeaves, split, failing, workers, buf, closed, closeCount,
                 emitted, cpc, cur, received, errCount, diffCount, ret,
                 sawErr, sawDiff, early>>
  /\ FrameT

\* targets <- t.  A send on a closed channel panics; a buffered channel
\* with room accepts the value; an unbuffered one hands it to a receiver
\* that is waiting in the range statement, and blocks otherwise.
Send ==
  /\ wpc = "send"
  /\ IF closed
       THEN /\ wpc' = "panic"
            /\ UNCHANGED <<buf, emitted, cpc, cur, received, pending>>
       ELSE IF Len(buf) < ChanCap
         THEN /\ buf' = Append(buf, pending)
              /\ emitted' = Append(emitted, pending)
              /\ wpc' = "walk"
              /\ pending' = NoTarget
              /\ UNCHANGED <<cpc, cur, received>>
         ELSE /\ cpc = "recv"
              /\ buf = <<>>
              /\ emitted' = Append(emitted, pending)
              /\ cur' = pending
              /\ received' = Append(received, pending)
              /\ cpc' = "body"
              /\ wpc' = "walk"
              /\ pending' = NoTarget
              /\ UNCHANGED buf
  /\ UNCHANGED <<nLeaves, split, failing, workers, stack, closed, closeCount,
                 errCount, diffCount, ret, sawErr, sawDiff, early>>
  /\ FrameT

\* The worker closes the channel once generateTargetsForDir has returned.
WorkerMayCloseEarly == wpc = "walk" /\ ~closed
WorkerMayClose == wpc = "walk" /\ stack = <<>>

Close ==
  /\ WorkerMayClose
  /\ IF closed
       THEN wpc' = "panic" /\ UNCHANGED <<closed, closeCount>>
       ELSE /\ closed' = TRUE
            /\ closeCount' = closeCount + 1
            /\ wpc' = IF stack = <<>> THEN "done" ELSE "walk"
  /\ UNCHANGED <<nLeaves, split, failing, workers, stack, pending, buf,
                 emitted, cpc, cur, received, errCount, diffCount, ret,
                 sawErr, sawDiff, early>>
  /\ FrameT

\* `for t := range targets`, the receive that does not meet a sender: a
\* buffered value is taken, or the closed and drained channel ends the loop.
Receive ==
  /\ cpc = "recv"
  /\ IF buf # <<>>
       THEN /\ cur' = Head(buf)
            /\ buf' = Tail(buf)
            /\ received' = Append(received, Head(buf))
            /\ cpc' = "body"
       ELSE /\ closed
            /\ cpc' = "after"
            /\ UNCHANGED <<cur, buf, received>>
  /\ UNCHANGED <<nLeaves, split, failing, workers, wpc, stack, pending,
                 closed, closeCount, emitted, errCount, diffCount, ret,
                 sawErr, sawDiff, early>>
  /\ FrameT

\* The loop body for a Target with errors: report, count, continue.
SkipTargetAbort ==
  /\ errCount' = errCount + 1
  /\ sawErr' = TRUE
  /\ ret' = "err"
  /\ early' = TRUE
  /\ cpc' = "returned"
  /\ UNCHANGED <<diffCount, sawDiff>>

SkipTarget ==
  /\ errCount' = errCount + 1
  /\ sawErr' = TRUE
  /\ cpc' = "recv"
  /\ UNCHANGED <<diffCount, ret, sawDiff, early>>

\* return err, from inside the range loop.
ReturnErr ==
  /\ ret' = "err"
  /\ sawErr' = TRUE
  /\ early' = TRUE
  /\ cpc' = "returned"
  /\ UNCHANGED <<errCount, diffCount, sawDiff>>

\* The loop body for a healthy Target.  diffOk: tengo.NewSchemaDiff
\* succeeded; verify: the verify option; verifyOk: t.verifyDiff succeeded;
\* ddls: for each table diff, what NewDDLStatement returned ("nil": no
\* statement, "ok": a statement, "err": a statement carrying an error).
DiffTarget ==
  \E diffOk \in BOOLEAN, verify \in BOOLEAN, verifyOk \in BOOLEAN,
     ddls \in SeqsUpTo({"nil", "ok", "err"}, MaxTableDiffs) :
    IF ~diffOk \/ (verify /\ Len(ddls) > 0 /\ ~verifyOk)
      THEN ReturnErr
      ELSE /\ diffCount' = diffCount + CountIn(ddls, {"ok", "err"})
           /\ errCount' = errCount + CountIn(ddls, {"err"})
           /\ sawDiff' = (sawDiff \/ CountIn(ddls, {"ok", "err"}) > 0)
           /\ sawErr' = (sawErr \/ CountIn(ddls, {"err"}) > 0)
           /\ cpc' = "recv"
           /\ UNCHANGED <<ret, early>>

Body ==
  /\ cpc = "body"
  /\ IF cur.err THEN SkipTarget ELSE DiffTarget
  /\ UNCHANGED <<nLeaves, split, failing, workers, wpc, stack, pending, buf,
                 closed, closeCount, emitted, cur, received>>
  /\ FrameT

\* The value DiffHandler returns after the loop.
DiffResultDiffFirst(e, d) ==
  IF d > 0 THEN "CodeDifferencesFound"
  ELSE IF e > 0 THEN "CodeFatalError"
  ELSE "nil"

DiffResult(e, d) ==
  IF e > 0 THEN "CodeFatalError"
  ELSE IF d > 0 THEN "CodeDifferencesFound"
  ELSE "nil"

Finish ==
  /\ cpc = "after"
  /\ ret' = DiffResult(errCount, diffCount)
  /\ cpc' = "returned"
  /\ UNCHANGED <<nLeaves, split, failing, workers, wpc, stack, pending, buf,
                 closed, closeCount, emitted, cur, received, errCount,
                 diffCount, sawErr, sawDiff, early>>
  /\ FrameT

Worker == WalkStep \/ Send \/ Close
Consumer == DiffStart \/ Receive \/ Body \/ Finish

(***************************************************************************)
(* The option token normalizer (option.go).                                *)
(***************************************************************************)

sLoose == <<"l","o","o","s","e","-">>
sSkip == <<"s","k","i","p","-">>
sDisable == <<"d","i","s","a","b","l","e","-">>
sEnable == <<"e","n","a","b","l","e","-">>
sOff == <<"o","f","f">>
sFalse == <<"f","a","l","s","e">>

NoResult == [key |-> <<>>, value |-> <<>>, loose |-> FALSE]

\* The value of a negated option that was given a value: a falsey value is
\* a double negative.
NegatedValueCaseSensitive(value) ==
  IF value \in {sOff, sFalse, <<"0">>} THEN <<"1">> ELSE <<"0">>

NegatedValue(value) ==
  IF ToLower(value) \in {sOff, sFalse, <<"0">>} THEN <<"1">> ELSE <<"0">>

\* The whitespace trimming NormalizeOptionToken applies to both halves.
TrimToken(s) == TrimSpace(s)

NormalizeOptionToken(a) ==
  LET tokens == SplitN2(a, "=")
      key0 == TrimToken(tokens[1])
      key1 == ReplaceChar(ToLower(key0), "_", "-")
      loose == HasPrefix(key1, sLoose)
      key2 == IF loose THEN Drop(key1, 6) ELSE key1
      negated == HasPrefix(key2, sSkip) \/ HasPrefix(key2, sDisable)
      key3 == IF HasPrefix(key2, sSkip) THEN Drop(key2, 5)
              ELSE IF HasPrefix(key2, sDisable) THEN Drop(key2, 8)
              ELSE IF HasPrefix(key2, sEnable) THEN Drop(key2, 7)
              ELSE key2
      value == IF Len(tokens) > 1
                 THEN (IF negated THEN NegatedValue(TrimToken(tokens[2]))
                                  ELSE TrimToken(tokens[2]))
                 ELSE (IF negated THEN <<"0">> ELSE <<>>)
  IN  IF key0 = <<>> THEN NoResult
      ELSE [key |-> key3, value |-> value, loose |-> loose]

NormalizeOptionName(name) == NormalizeOptionToken(name).key

\* The canonical token of a normalized pair: `k=v`, or `k` when v is empty.
CanonicalToken(r) ==
  IF r.value = <<>> THEN r.key ELSE r.key \o <<"=">> \o r.value

\* The raw tokens the model feeds the normalizer: optional leading space,
\* up to MaxPrefixes prefixes, a name, and an optional `=value`.
Leads == {<<>>, <<" ">>}
PrefixPieces == {sLoose, sSkip, sDisable, sEnable, <<"S","k","i","p","_">>}
Bodies == {<<>>, <<"x">>, <<" ","x">>, <<"X","_","y">>}
Values == {<<>>, <<"0">>, <<" "," ","0"," ">>, <<"O","f","f">>, sFalse,
           <<"1">>, <<"o","n">>, <<"a","=","b">>}
ValueParts == {<<>>} \cup {<<"=">> \o v : v \in Values}

Tokens ==
  {lead \o Concat(ps) \o body \o vp :
     lead \in Leads, ps \in SeqsUpTo(PrefixPieces, MaxPrefixes),
     body \in Bodies, vp \in ValueParts}

StartN == nphase = "raw" /\ norm = NoResult /\ renorm = NoResult

InitN == arg \in Tokens /\ StartN

IdleN == arg = <<>> /\ StartN

NormalizeCall ==
  /\ nphase = "raw"
  /\ norm' = NormalizeOptionToken(arg)
  /\ nphase' = "normalized"
  /\ UNCHANGED <<arg, renorm>>
  /\ FrameN

RenormalizeCall ==
  /\ nphase = "normalized"
  /\ renorm' = NormalizeOptionToken(CanonicalToken(norm))
  /\ nphase' = "renormalized"
  /\ UNCHANGED <<arg, norm>>
  /\ FrameN


(***************************************************************************)
(* Layered configuration (mycli.Config as the spec describes it): the      *)
(* command line and an ordered list of sources, each a partial map from    *)
(* option names to values.                                                 *)
(***************************************************************************)
sLocalhost == <<"l","o","c","a","l","h","o","s","t">>
sRoot == <<"r","o","o","t">>
s3306 == <<"3","3","0","6">>
sMask == <<"*","*","*","*","*">>
sSockPath == <<"/","t","m","p","/","x",".","s","o","c","k">>

\* GlobalOptions: the defaults of the options the directory code reads.
DefaultOf(k) ==
  CASE k = "host" -> <<"1","2","7",".","0",".","0",".","1">>
    [] k = "port" -> s3306
    [] k = "user" -> sRoot
    [] k = "password" -> <<"<no password>">>
    [] k = "socket" -> <<"/","t","m","p","/","m","y","s","q","l",".","s","o","c","k">>
    [] k = "environment" -> <<"production">>
    [] OTHER -> <<>>

\* A source: a name, the section selected in it, and its values.
NoValues == [k \in {} |-> <<>>]
EmptySource == [name |-> <<"cli">>, section |-> <<>>, vals |-> NoValues]
EmptyConfig == [cli |-> EmptySource, sources |-> <<>>]

\* Config.Changed: some source other than the defaults defines the key.
CfgChanged(cfg, k) ==
  \/ k \in DOMAIN cfg.cli.vals
  \/ \E i \in 1..Len(cfg.sources) : k \in DOMAIN cfg.sources[i].vals

\* Config.Get: the command line first, then the latest source defining the
\* key, then the option's default.
CfgGet(cfg, k) ==
  IF k \in DOMAIN cfg.cli.vals THEN cfg.cli.vals[k]
  ELSE IF \E i \in 1..Len(cfg.sources) : k \in DOMAIN cfg.sources[i].vals
    THEN LET i == CHOOSE i \in 1..Len(cfg.sources) :
                    /\ k \in DOMAIN cfg.sources[i].vals
                    /\ \A j \in (i + 1)..Len(cfg.sources) :
                         k \notin DOMAIN cfg.sources[j].vals
         IN  cfg.sources[i].vals[k]
  ELSE DefaultOf(k)

\* Config.GetIntOrDefault: the parsed value, or the parsed default.
CfgGetIntOrDefault(cfg, k) ==
  IF IsNumber(CfgGet(cfg, k)) THEN Atoi(CfgGet(cfg, k)) ELSE Atoi(DefaultOf(k))

\* Config.AddSource
CfgAddSource(cfg, src) == [cfg EXCEPT !.sources = Append(@, src)]

(***************************************************************************)
(* Dir.InstanceKey and Dir.FirstInstance (dir.go).                         *)
(***************************************************************************)
\* dir.Path of the directory the instance methods are called on.
DirPath == <<"/","d">>

Unset == <<"<unset>">>

HostValues == {sLocalhost, <<"d","b">>}
PortValues == {s3306, <<"0","8","0">>, <<"x">>}
SocketValues == {sSockPath}
UserValues == {<<"u">>}
PasswordValues == {<<"p","w">>, sRoot, <<>>}

InstKeys == {"host", "port", "socket", "user", "password"}

ValuesOf(k) ==
  CASE k = "host" -> HostValues
    [] k = "port" -> PortValues
    [] k = "socket" -> SocketValues
    [] k = "user" -> UserValues
    [] k = "password" -> PasswordValues

\* An option file's values: each key is absent or has one of its values.
MkSource(full) ==
  [name |-> DirPath, section |-> <<>>,
   vals |-> [k \in {x \in DOMAIN full : full[x] # Unset} |-> full[k]]]

FileSources ==
  {MkSource([host |-> h, port |-> p, socket |-> so, user |-> u, password |-> pw]) :
     h \in HostValues \cup {Unset}, p \in PortValues \cup {Unset},
     so \in SocketValues \cup {Unset}, u \in UserValues \cup {Unset},
     pw \in PasswordValues \cup {Unset}}

HasHost(cfg) == CfgChanged(cfg, "host")

\* The localhost special case shared by InstanceKey and FirstInstance.
UsesSocketAnd(cfg) ==
  /\ CfgGet(cfg, "host") = sLocalhost
  /\ CfgChanged(cfg, "socket") /\ ~CfgChanged(cfg, "port")

UsesSocket(cfg) ==
  /\ CfgGet(cfg, "host") = sLocalhost
  /\ (CfgChanged(cfg, "socket") \/ ~CfgChanged(cfg, "port"))

InstanceKey(cfg) ==
  IF ~CfgChanged(cfg, "host") THEN <<>>
  ELSE IF UsesSocket(cfg)
    THEN CfgGet(cfg, "host") \o <<":">> \o CfgGet(cfg, "socket")
    ELSE CfgGet(cfg, "host") \o <<":">> \o Itoa(CfgGetIntOrDefault(cfg, "port"))

UserAndPass(cfg) ==
  IF ~CfgChanged(cfg, "password") THEN CfgGet(cfg, "user")
  ELSE CfgGet(cfg, "user") \o <<":">> \o CfgGet(cfg, "password")

sParams == <<"interpolateParams=true&foreign_key_checks=0">>

DSN(cfg) ==
  IF UsesSocket(cfg)
    THEN UserAndPass(cfg) \o <<"@unix(">> \o CfgGet(cfg, "socket") \o <<")/?">> \o sParams
    ELSE UserAndPass(cfg) \o <<"@tcp(">> \o CfgGet(cfg, "host") \o <<":">>
           \o Itoa(CfgGetIntOrDefault(cfg, "port")) \o <<")/?">> \o sParams

\* The DSN as the construction-failure message shows it.
SafeDSNUnredacted(cfg) == DSN(cfg)

SafeDSN(cfg) ==
  IF CfgChanged(cfg, "password")
    THEN ReplaceFirst(DSN(cfg), UserAndPass(cfg), CfgGet(cfg, "user") \o <<":">> \o sMask)
    ELSE DSN(cfg)

\* tengo's rendering of an Instance: host:port, or host:socket.
InstanceString(cfg) ==
  IF UsesSocket(cfg)
    THEN CfgGet(cfg, "host") \o <<":">> \o CfgGet(cfg, "socket")
    ELSE CfgGet(cfg, "host") \o <<":">> \o Itoa(CfgGetIntOrDefault(cfg, "port"))

\* The renderings of the error tengo hands back: a driver error, or nil.
ErrTexts == {<<"driver error">>, <<"%!s(<nil>)">>}

InvalidMsg(cfg, errText) ==
  <<"Invalid connection information for ">> \o DirPath \o <<" (DSN=">>
    \o SafeDSN(cfg) \o <<"): ">> \o errText

UnableMsg(cfg, errText) ==
  <<"Unable to connect to ">> \o InstanceString(cfg) \o <<" for ">> \o DirPath
    \o <<": ">> \o errText

NotCalled == [called |-> FALSE, instance |-> FALSE, msg |-> <<>>]

\* FirstInstance: newInst is what tengo.NewInstance did ("err", "nil" or
\* "ok"), canConnect what instance.CanConnect answered.
FirstInstance(cfg, newInst, canConnect) ==
  IF ~HasHost(cfg) THEN [called |-> TRUE, instance |-> FALSE, msg |-> <<>>]
  ELSE IF newInst # "ok"
    THEN [called |-> TRUE, instance |-> FALSE,
          msg |-> InvalidMsg(cfg, IF newInst = "err" THEN <<"driver error">>
                                                    ELSE <<"%!s(<nil>)">>)]
  ELSE IF ~canConnect
    THEN [called |-> TRUE, instance |-> FALSE, msg |-> UnableMsg(cfg, <<"driver error">>)]
  ELSE [called |-> TRUE, instance |-> TRUE, msg |-> <<>>]

StartI == ikey = Unset /\ fiRes = NotCalled /\ fiPath = "none" /\ overrides = 0

InitI == icfg \in {[cli |-> EmptySource, sources |-> <<f>>] : f \in FileSources} /\ StartI

IdleI == icfg = EmptyConfig /\ StartI

\* dir.Config.AddSource of an in-memory override of one option.
AddOverride ==
  /\ overrides < MaxOverrides
  /\ ikey = Unset /\ ~fiRes.called
  /\ \E k \in InstKeys : \E v \in ValuesOf(k) :
       icfg' = CfgAddSource(icfg, [name |-> <<"override">>, section |-> <<>>,
                                   vals |-> [x \in {k} |-> v]])
  /\ overrides' = overrides + 1
  /\ UNCHANGED <<ikey, fiRes, fiPath>>
  /\ FrameI

InstanceKeyCall ==
  /\ ikey = Unset
  /\ ikey' = InstanceKey(icfg)
  /\ UNCHANGED <<icfg, fiRes, fiPath, overrides>>
  /\ FrameI

FirstInstanceCall ==
  /\ ~fiRes.called
  /\ \E newInst \in {"err", "nil", "ok"}, canConnect \in BOOLEAN :
       /\ fiRes' = FirstInstance(icfg, newInst, canConnect)
       /\ fiPath' = IF ~HasHost(icfg) THEN "nohost"
                    ELSE IF newInst # "ok" THEN "construct"
                    ELSE IF ~canConnect THEN "probe" ELSE "ok"
  /\ UNCHANGED <<icfg, ikey, overrides>>
  /\ FrameI

(***************************************************************************)
(* The filesystem and the directory tree (dir.go).                         *)
(*                                                                         *)
(* A path is the sequence of its components; <<>> is the filesystem root.  *)
(* fs maps each path to its directory: st is "absent", "unreadable"        *)
(* (ioutil.ReadDir fails) or "ok"; git says whether it holds a .git entry; *)
(* skeema is the state of its .skeema file ("none", "ok", "unreadable":    *)
(* File.Read fails, "unparsable": File.Parse fails) and vals the values    *)
(* that file holds.  Configurations live in cfgHeap and a Dir refers to    *)
(* its own by index, as the *mycli.Config pointer does.                    *)
(***************************************************************************)
RootPath == <<>>
NoHome == <<"$HOME is not on the path">>
NoPath == <<"no path">>

Prefix(p, k) == SubSeq(p, 1, k)

Reverse(s) == [i \in 1..Len(s) |-> s[Len(s) + 1 - i]]

AbsentDir == [st |-> "absent", git |-> FALSE, skeema |-> "none", vals |-> NoValues]
EmptyDir == [st |-> "ok", git |-> FALSE, skeema |-> "none", vals |-> NoValues]

Exists(q) == q \in DOMAIN fs /\ fs[q].st # "absent"
Readable(q) == q \in DOMAIN fs /\ fs[q].st = "ok"

\* Dir.HasOptionFile: os.Stat of the .skeema file succeeds.
HasOptionFile(q) == Readable(q) /\ fs[q].skeema # "none"

\* The mycli.File of a directory, read, with a section selected.
FileSource(q, sec) == [name |-> q, section |-> sec, vals |-> fs[q].vals]

\* len(components) and curPath of cascadingOptionFiles: the split of "/"
\* leaves one empty component, whose curPath is "/" itself.
Components(p) == IF p = RootPath THEN 1 ELSE Len(p)
CurPath(p, n) == IF p = RootPath THEN RootPath ELSE Prefix(p, n + 1)

\* What a failed ioutil.ReadDir leaves of errReturn: the loop continues.
ListErrorFatal(err) == TRUE
ListError(err) == err

\* The loop of cascadingOptionFiles from index n down, then the reversal.
\* reads: the files File.Read was called on.
RECURSIVE CascadeLoop(_, _, _, _, _, _)
CascadeLoop(p, n, base, files, reads, err) ==
  IF n < 0 \/ base # 0
    THEN [files |-> Reverse(files), reads |-> reads, err |-> err]
    ELSE LET curPath == CurPath(p, n)
             base1 == IF curPath = home THEN n ELSE base
         IN  IF ~Readable(curPath)
               THEN CascadeLoop(p, n - 1, base1, files, reads, ListError(err))
               ELSE LET base2 == IF fs[curPath].git THEN n ELSE base1
                        has == fs[curPath].skeema # "none"
                        readOk == fs[curPath].skeema # "unreadable"
                    IN  CascadeLoop(p, n - 1, base2,
                                    IF has /\ readOk THEN Append(files, curPath) ELSE files,
                                    IF has THEN reads \cup {curPath} ELSE reads,
                                    err \/ (has /\ ~readOk))

cascadingOptionFiles(p) == CascadeLoop(p, Components(p) - 1, 0, <<>>, {}, FALSE)

\* NewDir's loop over the option files: parse, select the section, add.
RECURSIVE ApplyFiles(_, _, _)
ApplyFiles(cfg, files, sec) ==
  IF files = <<>> THEN [cfg |-> cfg, err |-> FALSE]
  ELSE IF fs[Head(files)].skeema = "unparsable" THEN [cfg |-> cfg, err |-> TRUE]
  ELSE ApplyFiles(CfgAddSource(cfg, FileSource(Head(files), sec)), Tail(files), sec)

\* Where a stored configuration goes: a new index extends the heap.
HeapPut(heap, id, cfg) ==
  IF id > Len(heap) THEN Append(heap, cfg) ELSE [heap EXCEPT ![id] = cfg]

\* Config.Clone(): the copy lives at a fresh index.
ConfigClone(id, heap) == Len(heap) + 1

\* The configuration a new Dir gets from NewDir, Subdirs and CreateSubdir.
NewDirConfig(id, heap) == ConfigClone(id, heap)
SubdirConfigShared(id, heap) == id
SubdirConfig(id, heap) == ConfigClone(id, heap)
CreateSubdirConfig(id, heap) == ConfigClone(id, heap)

\* The base configuration the command passes to NewDir.
BaseId == 1

NoCall == [op |-> "none", target |-> 0, path |-> NoPath, ok |-> FALSE,
           created |-> {}, files |-> <<>>, reads |-> {}]

\* NewDir(".", baseConfig) in the working directory cwd.
NewDirCall ==
  /\ opsLeft > 0
  /\ LET base == cfgHeap[BaseId]
         sec == CfgGet(base, "environment")
         cas == cascadingOptionFiles(cwd)
         app == ApplyFiles(base, cas.files, sec)
         ok == ~cas.err /\ ~app.err
         c == NewDirConfig(BaseId, cfgHeap)
     IN  /\ IF ok
              THEN /\ cfgHeap' = HeapPut(cfgHeap, c, app.cfg)
                   /\ dirs' = Append(dirs, [path |-> cwd, cfg |-> c, section |-> sec])
              ELSE UNCHANGED <<cfgHeap, dirs>>
         /\ lastCall' = [op |-> "NewDir", target |-> 0, path |-> cwd, ok |-> ok,
                         created |-> IF ok THEN {Len(dirs) + 1} ELSE {},
                         files |-> IF ok THEN cas.files ELSE <<>>,
                         reads |-> cas.reads]
  /\ opsLeft' = opsLeft - 1
  /\ UNCHANGED <<fs, home, cwd>>
  /\ FrameD

\* The names a directory listing can hold, in the order ReadDir sorts them.
NameOrder == <<"a", "b", "c">>

IsSubdir(q) == Exists(q)

\* The subdirectories of q as ioutil.ReadDir lists them.
ChildPaths(q) == SelectSeq([i \in 1..Len(NameOrder) |-> q \o <<NameOrder[i]>>], IsSubdir)

\* The loop of Dir.Subdirs over the listed subdirectories.
RECURSIVE SubdirsLoop(_, _, _, _)
SubdirsLoop(children, parent, heap, acc) ==
  IF children = <<>> THEN [err |-> FALSE, heap |-> heap, dirs |-> acc]
  ELSE LET q == Head(children)
           c == SubdirConfig(parent.cfg, heap)
           cloned == HeapPut(heap, c, heap[parent.cfg])
       IN  IF HasOptionFile(q)
             THEN IF fs[q].skeema \in {"unreadable", "unparsable"}
                    THEN [err |-> TRUE, heap |-> cloned, dirs |-> <<>>]
                    ELSE SubdirsLoop(Tail(children), parent,
                           [cloned EXCEPT ![c] = CfgAddSource(@, FileSource(q, parent.section))],
                           Append(acc, [path |-> q, cfg |-> c, section |-> parent.section]))
             ELSE SubdirsLoop(Tail(children), parent, cloned,
                    Append(acc, [path |-> q, cfg |-> c, section |-> parent.section]))

SubdirsCall ==
  /\ opsLeft > 0
  /\ \E i \in 1..Len(dirs) :
       LET d == dirs[i]
           r == IF Readable(d.path)
                  THEN SubdirsLoop(ChildPaths(d.path), d, cfgHeap, <<>>)
                  ELSE [err |-> TRUE, heap |-> cfgHeap, dirs |-> <<>>]
       IN  /\ Len(dirs) + Len(r.dirs) <= MaxDirs
           /\ cfgHeap' = r.heap
           /\ dirs' = dirs \o r.dirs
           /\ lastCall' = [op |-> "Subdirs", target |-> 0, path |-> d.path, ok |-> ~r.err,
                           created |-> (Len(dirs) + 1)..(Len(dirs) + Len(r.dirs)),
                           files |-> <<>>, reads |-> {}]
  /\ opsLeft' = opsLeft - 1
  /\ UNCHANGED <<fs, home, cwd>>
  /\ FrameD

\* The option files callers hand to CreateSubdir and CreateOptionFile, and
\* the in-memory sources they add to a Dir's configuration.
Templates == {[k \in {"schema"} |-> <<"s","2">>]}
OverrideValues == {[k \in {"host"} |-> <<"h","2">>], [k \in {"schema"} |-> <<"s","3">>]}

\* os.MkdirAll: the directory and its missing ancestors come to exist.
MkdirAll(q) ==
  [r \in DOMAIN fs \cup {Prefix(q, k) : k \in 0..Len(q)} |->
     IF r \in DOMAIN fs /\ fs[r].st # "absent" THEN fs[r] ELSE
     IF \E k \in 0..Len(q) : r = Prefix(q, k) THEN EmptyDir ELSE fs[r]]

\* File.Write(false) of values into the directory q of filesystem f.
WriteFile(f, q, vals) == [f EXCEPT ![q].skeema = "ok", ![q].vals = vals]

\* Dir.CreateSubdir(name, optionFile); hasFile: optionFile != nil.
CreateSubdirCall ==
  /\ opsLeft > 0
  /\ Len(dirs) < MaxDirs
  /\ \E i \in 1..Len(dirs), n \in 1..Len(NameOrder), hasFile \in BOOLEAN,
        tmpl \in Templates, mkdirOk \in BOOLEAN, writeOk \in BOOLEAN :
       LET d == dirs[i]
           q == d.path \o <<NameOrder[n]>>
           c == CreateSubdirConfig(d.cfg, cfgHeap)
           created == ~Exists(q) /\ mkdirOk
           ok == created /\ (hasFile => writeOk)
           made == MkdirAll(q)
           cfg == IF hasFile
                    THEN CfgAddSource(cfgHeap[d.cfg],
                           [name |-> q, section |-> d.section, vals |-> tmpl])
                    ELSE cfgHeap[d.cfg]
       IN  /\ Len(q) <= MaxPathLen
           /\ fs' = IF ~created THEN fs
                    ELSE IF hasFile /\ writeOk THEN WriteFile(made, q, tmpl)
                    ELSE made
           /\ IF ok
                THEN /\ cfgHeap' = HeapPut(cfgHeap, c, cfg)
                     /\ dirs' = Append(dirs, [path |-> q, cfg |-> c, section |-> d.section])
                ELSE UNCHANGED <<cfgHeap, dirs>>
           /\ lastCall' = [op |-> "CreateSubdir", target |-> 0, path |-> q, ok |-> ok,
                           created |-> IF ok THEN {Len(dirs) + 1} ELSE {},
                           files |-> <<>>, reads |-> {}]
  /\ opsLeft' = opsLeft - 1
  /\ UNCHANGED <<home, cwd>>
  /\ FrameD

\* Dir.CreateOptionFile(optionFile) on an existing Dir.
CreateOptionFileCall ==
  /\ opsLeft > 0
  /\ \E i \in 1..Len(dirs), tmpl \in Templates, writeOk \in BOOLEAN :
       LET d == dirs[i]
           ok == writeOk /\ Readable(d.path) /\ fs[d.path].skeema = "none"
       IN  /\ IF ok
                THEN /\ fs' = WriteFile(fs, d.path, tmpl)
                     /\ cfgHeap' = [cfgHeap EXCEPT ![d.cfg] =
                          CfgAddSource(@, [name |-> d.path, section |-> d.section,
                                           vals |-> tmpl])]
                ELSE UNCHANGED <<fs, cfgHeap>>
           /\ lastCall' = [op |-> "CreateOptionFile", target |-> i, path |-> d.path,
                           ok |-> ok, created |-> {}, files |-> <<>>, reads |-> {}]
  /\ opsLeft' = opsLeft - 1
  /\ UNCHANGED <<home, cwd, dirs>>
  /\ FrameD

\* dir.Config.AddSource(source) by a caller holding the Dir.
AddSourceCall ==
  /\ opsLeft > 0
  /\ \E i \in 1..Len(dirs), v \in OverrideValues :
       /\ cfgHeap' = [cfgHeap EXCEPT ![dirs[i].cfg] =
            CfgAddSource(@, [name |-> <<"override">>, section |-> <<>>, vals |-> v])]
       /\ lastCall' = [op |-> "AddSource", target |-> i, path |-> dirs[i].path,
                       ok |-> TRUE, created |-> {}, files |-> <<>>, reads |-> {}]
  /\ opsLeft' = opsLeft - 1
  /\ UNCHANGED <<fs, home, cwd, dirs>>
  /\ FrameD

StartD == dirs = <<>> /\ lastCall = NoCall

\* The base configurations of the command: the environment argument given
\* or left at its default.
BaseConfigs ==
  {EmptyConfig,
   [cli |-> [name |-> <<"cli">>, section |-> <<>>,
             vals |-> [k \in {"environment"} |-> <<"staging">>]],
    sources |-> <<>>]}

SchemaValues == [k \in {"schema"} |-> <<"s","1">>]
HostFileValues == [k \in {"host"} |-> <<"d","b">>]

\* A chain of directories /a/a/... of some depth that exists down to some
\* level (the root always does): each existing directory is unlistable, or
\* listable with or without .git and a .skeema file in any state; $HOME on
\* the chain or elsewhere; NewDir is called once, on the deepest path.
ChainPath(d) == [i \in 1..d |-> "a"]

UnlistableDir == [AbsentDir EXCEPT !.st = "unreadable"]

ChainDirs ==
  {UnlistableDir}
    \cup {[st |-> "ok", git |-> g, skeema |-> sk,
           vals |-> IF sk = "none" THEN NoValues ELSE SchemaValues] :
            g \in BOOLEAN, sk \in {"none", "ok"}}
    \cup {[st |-> "ok", git |-> FALSE, skeema |-> sk, vals |-> SchemaValues] :
            sk \in {"unreadable", "unparsable"}}

InitChain ==
  /\ \E d \in 0..MaxDepth :
       /\ cwd = ChainPath(d)
       /\ \E e \in 0..d :
            /\ fs \in [{Prefix(ChainPath(d), k) : k \in 0..d} -> ChainDirs \cup {AbsentDir}]
            /\ \A k \in 0..d : (fs[Prefix(ChainPath(d), k)] = AbsentDir) <=> (k > e)
       /\ home \in {Prefix(ChainPath(d), k) : k \in 0..d} \cup {NoHome}
  /\ cfgHeap \in {<<b>> : b \in BaseConfigs}
  /\ opsLeft = 1
  /\ StartD

\* A small tree: /a with an option file, /a/b with or without one in any
\* state, /a/c present or not; callers then build Dirs and add sources.
InitTree ==
  /\ cwd = <<"a">>
  /\ home = NoHome
  /\ \E ga \in BOOLEAN, skb \in {"none", "ok", "unreadable"}, stc \in {"absent", "ok"} :
       fs = [q \in {RootPath, <<"a">>, <<"a","b">>, <<"a","c">>} |->
               IF q = RootPath THEN EmptyDir
               ELSE IF q = <<"a">>
                 THEN [st |-> "ok", git |-> ga, skeema |-> "ok", vals |-> HostFileValues]
               ELSE IF q = <<"a","b">>
                 THEN [st |-> "ok", git |-> FALSE, skeema |-> skb,
                       vals |-> IF skb = "none" THEN NoValues ELSE SchemaValues]
               ELSE [EmptyDir EXCEPT !.st = stc]]
  /\ cfgHeap \in {<<b>> : b \in BaseConfigs}
  /\ opsLeft = MaxOps
  /\ StartD

IdleD ==
  /\ cwd = RootPath /\ home = NoHome
  /\ fs = [q \in {RootPath} |-> EmptyDir]
  /\ cfgHeap = <<EmptyConfig>>
  /\ opsLeft = 0
  /\ StartD

(***************************************************************************)
(* Specifications.                                                         *)
(***************************************************************************)
vars == <<varsT, varsN, varsI, varsD>>

\* The diff command: DiffHandler and the worker of Targets().
NextT == Worker \/ Consumer

Init == InitT /\ IdleN /\ IdleI /\ IdleD
Next == NextT
Spec == Init /\ [][Next]_vars

\* The Go scheduler runs every goroutine that can take a step.
FairSpec == Spec /\ WF_vars(Worker) /\ WF_vars(Consumer)

\* The normalizer applied to a token, then to the canonical token of the result.
InitNorm == IdleT /\ InitN /\ IdleI /\ IdleD
NextN == NormalizeCall \/ RenormalizeCall
SpecNorm == InitNorm /\ [][NextN]_vars

\* A configured directory asked for its instance key and its instance.
InitInst == IdleT /\ IdleN /\ InitI /\ IdleD
NextI == AddOverride \/ InstanceKeyCall \/ FirstInstanceCall
SpecInst == InitInst /\ [][NextI]_vars

\* NewDir on the deepest directory of a chain.
InitCascade == IdleT /\ IdleN /\ IdleI /\ InitChain
NextC == NewDirCall
SpecCascade == InitCascade /\ [][NextC]_vars

\* Callers building a tree of Dirs and adding sources to them.
InitDirs == IdleT /\ IdleN /\ IdleI /\ InitTree
NextD ==
  NewDirCall \/ SubdirsCall \/ CreateSubdirCall \/ CreateOptionFileCall \/ AddSourceCall
SpecDir == InitDirs /\ [][NextD]_vars

(***************************************************************************)
(* Properties of target resolution and the diff loop.                      *)
(***************************************************************************)
AllTargets == [i \in 1..nLeaves |-> ResolveTarget(i)]

ErrorsIn(ts) == Cardinality({i \in 1..Len(ts) : ts[i].err})

IsPrefix(s, t) == Len(s) <= Len(t) /\ s = SubSeq(t, 1, Len(s))

\* The exit code the process ends with for a value returned by DiffHandler
\* (0 no differences, 1 differences found, 2 or more an error).
ExitCode(r) ==
  CASE r = "nil" -> 0
    [] r = "CodeDifferencesFound" -> 1
    [] r = "CodeFatalError" -> 2
    [] r = "err" -> 2

C2_Safety ==
  /\ workers = (IF wpc = "idle" THEN 0 ELSE 1)
  /\ closeCount = (IF closed THEN 1 ELSE 0)
  /\ wpc # "panic"
  /\ closed => (wpc = "done" /\ stack = <<>> /\ pending = NoTarget)
  /\ IsPrefix(received, emitted)
  /\ \A i, j \in 1..Len(emitted) : emitted[i] = emitted[j] => i = j
  /\ cpc = "after" => (closed /\ received = emitted)

C2_CloseAfterWalk ==
  /\ []C2_Safety
  /\ [][closed => emitted' = emitted]_vars
  /\ <>(early \/ (cpc = "returned" /\ closed /\ received = emitted))

C2_Witness ==
  /\ cpc = "returned" /\ ~early /\ closed
  /\ Len(received) = MaxLeaves

C10_Blocked ==
  (early /\ wpc = "send") =>
    (wpc' = "send" /\ pending' = pending /\ stack' = stack
       /\ emitted' = emitted /\ ~closed')

C10_NoCancellation ==
  /\ []((early /\ Len(emitted) < nLeaves) => ~closed)
  /\ [][C10_Blocked]_vars

C10_Witness ==
  /\ early /\ cpc = "returned"
  /\ wpc = "send" /\ pending # NoTarget
  /\ stack # <<>>

(***************************************************************************)
(* Properties of the normalizer.                                           *)
(***************************************************************************)
NegationPrefixes == {sSkip, sDisable}

\* Keys in canonical spelling: lower case, no underscore.
CanonicalKeys ==
  {k \in {Concat(ps) \o body :
            ps \in SeqsUpTo(PrefixPieces, MaxPrefixes - 1), body \in Bodies} :
     ReplaceChar(ToLower(k), "_", "-") = k}

Falsey == {sOff, sFalse, <<"0">>}

\* C7: negation.  For P in {skip-, disable-} and every key X, `PX` alone
\* normalizes to (X, "0"); `PX=v` normalizes to (X, "1") when v, with the
\* surrounding whitespace the normalizer trims off, is off/false/0 in any
\* letter case, and to (X, "0") for every other v, the empty one included.
C7_Negation ==
  nphase # "raw" =>
    \A P \in NegationPrefixes, X \in CanonicalKeys :
      /\ arg = P \o X => (norm.key = X /\ norm.value = <<"0">>)
      /\ \A v \in Values :
           arg = P \o X \o <<"=">> \o v =>
             /\ norm.key = X
             /\ norm.value = (IF ToLower(TrimSpace(v)) \in Falsey
                                THEN <<"1">> ELSE <<"0">>)

C7_Witness ==
  /\ nphase = "normalized"
  /\ arg = sDisable \o <<"x">> \o <<"=">> \o <<"O","f","f">>
  /\ norm.key = <<"x">> /\ norm.value = <<"1">>

\* C8 as stated: normalizing the canonical token of any result with a
\* non-empty key gives the same key and value.
C8_Idempotent ==
  (nphase = "renormalized" /\ norm.key # <<>>) =>
    (renorm.key = norm.key /\ renorm.value = norm.value)

StartsWithPrefix(k) ==
  \E p \in {sLoose, sSkip, sDisable, sEnable} : HasPrefix(k, p)

\* C8 amended: normalization is idempotent on every result whose key does
\* not itself begin with whitespace or with one of the prefixes loose-,
\* skip-, disable-, enable- (only the first prefix of a token is stripped).
C8_IdempotentOnPlainKeys ==
  (nphase = "renormalized" /\ norm.key # <<>>
     /\ ~IsSpace(Head(norm.key)) /\ ~StartsWithPrefix(norm.key)) =>
    (renorm.key = norm.key /\ renorm.value = norm.value)

C8_Witness ==
  /\ nphase = "renormalized"
  /\ arg = <<" ">> \o sLoose \o <<"S","k","i","p","_">> \o <<"X","_","y">>
           \o <<"=">> \o <<" "," ","0"," ">>
  /\ norm = [key |-> <<"x","-","y">>, value |-> <<"1">>, loose |-> TRUE]
  /\ renorm.key = norm.key /\ renorm.value = norm.value

(***************************************************************************)
(* Properties of InstanceKey and FirstInstance.                            *)
(***************************************************************************)
HostSet == CfgChanged(icfg, "host")
SocketSet == CfgChanged(icfg, "socket")
PortSet == CfgChanged(icfg, "port")
PasswordSet == CfgChanged(icfg, "password")

\* The configured port as a number (the default when it does not parse).
PortText == Itoa(CfgGetIntOrDefault(icfg, "port"))

\* C9: InstanceKey is empty when host is not explicitly set; it is
\* host:socketPath when host is localhost and (socket is explicitly set or
\* port is not); it is host:port in every other case.  localhost with the
\* socket /tmp/x.sock gives localhost:/tmp/x.sock with or without a port,
\* and localhost with port 3306 and no socket gives localhost:3306.
C9_InstanceKey ==
  ikey # Unset =>
    /\ ~HostSet => ikey = <<>>
    /\ (HostSet /\ CfgGet(icfg, "host") = sLocalhost /\ (SocketSet \/ ~PortSet)) =>
         ikey = sLocalhost \o <<":">> \o CfgGet(icfg, "socket")
    /\ (HostSet /\ ~(CfgGet(icfg, "host") = sLocalhost /\ (SocketSet \/ ~PortSet))) =>
         ikey = CfgGet(icfg, "host") \o <<":">> \o PortText
    /\ (HostSet /\ CfgGet(icfg, "host") = sLocalhost /\ SocketSet
          /\ CfgGet(icfg, "socket") = sSockPath) =>
         ikey = sLocalhost \o <<":">> \o sSockPath
    /\ (HostSet /\ CfgGet(icfg, "host") = sLocalhost /\ ~SocketSet
          /\ PortSet /\ CfgGet(icfg, "port") = s3306) =>
         ikey = sLocalhost \o <<":">> \o s3306

C9_Witness ==
  /\ HostSet /\ SocketSet /\ PortSet
  /\ CfgGet(icfg, "host") = sLocalhost
  /\ CfgGet(icfg, "port") = s3306
  /\ ikey = sLocalhost \o <<":">> \o sSockPath

AddressText ==
  IF CfgGet(icfg, "host") = sLocalhost /\ (SocketSet \/ ~PortSet)
    THEN <<"@unix(">> \o CfgGet(icfg, "socket") \o <<")/?">> \o sParams
    ELSE <<"@tcp(">> \o CfgGet(icfg, "host") \o <<":">> \o PortText \o <<")/?">> \o sParams

\* What the other configured values and the fixed wording already contain.
OtherTexts ==
  {CfgGet(icfg, "user"), CfgGet(icfg, "host"), CfgGet(icfg, "socket"),
   PortText, DirPath, sMask}

HasGit(q) == Readable(q) /\ fs[q].git

\* The depth of the first directory, going upward from p, that is $HOME or
\* holds .git; 0, the filesystem root, when there is none.
StopDepth(p) ==
  LET S == {k \in 1..Len(p) : Prefix(p, k) = home \/ HasGit(Prefix(p, k))}
  IN  IF S = {} THEN 0 ELSE CHOOSE k \in S : \A j \in S : j <= k

\* The override files of the directories from the stop down to p.
ExpectedFiles(p) ==
  SelectSeq([i \in 1..(Len(p) - StopDepth(p) + 1) |-> Prefix(p, StopDepth(p) + i - 1)],
            HasOptionFile)

\* The files a Dir's configuration holds as sources, in order.
AddedFiles(i) ==
  [j \in 1..Len(cfgHeap[dirs[i].cfg].sources) |-> cfgHeap[dirs[i].cfg].sources[j].name]

\* C4: after NewDir(path) the override-file list holds the file of every
\* directory from the stopping directory (first of $HOME, a .git holder, or
\* the filesystem root) down to path, root-most first, and no file above
\* the stopping directory was read.
C4_CascadeFromStop ==
  lastCall.op = "NewDir" =>
    /\ \A q \in lastCall.reads : Len(q) >= StopDepth(lastCall.path)
    /\ \A i \in lastCall.created : AddedFiles(i) = ExpectedFiles(lastCall.path)

\* The keys whose Get and Changed results a caller can observe.
ViewKeys == {"schema", "host", "environment"}
ViewOf(cfg) == [k \in ViewKeys |-> <<CfgGet(cfg, k), CfgChanged(cfg, k)>>]

\* C3: a call never changes the Get or Changed result of any key in the
\* base configuration or in the configuration of any Dir other than the one
\* the source is added to.
C3_Step ==
  /\ ViewOf(cfgHeap'[BaseId]) = ViewOf(cfgHeap[BaseId])
  /\ \A i \in 1..Len(dirs) :
       i # lastCall'.target =>
         ViewOf(cfgHeap'[dirs'[i].cfg]) = ViewOf(cfgHeap[dirs[i].cfg])
C3_CloneIsolation == [][C3_Step]_vars

\* A source was added to a child and its parent, the base and a sibling
\* do not see it.
C3_Witness ==
  /\ lastCall.op = "AddSource"
  /\ \E c \in 1..Len(dirs), par \in 1..Len(dirs), sib \in 1..Len(dirs) :
       /\ c = lastCall.target
       /\ dirs[c].path # RootPath
       /\ dirs[par].path = Prefix(dirs[c].path, Len(dirs[c].path) - 1)
       /\ sib # c
       /\ dirs[sib].path # dirs[c].path
       /\ Len(dirs[sib].path) = Len(dirs[c].path)
       /\ ViewOf(cfgHeap[dirs[c].cfg]) # ViewOf(cfgHeap[dirs[par].cfg])
       /\ CfgGet(cfgHeap[dirs[c].cfg], "host") = <<"h","2">>
       /\ CfgGet(cfgHeap[dirs[par].cfg], "host") = <<"d","b">>
       /\ CfgGet(cfgHeap[dirs[sib].cfg], "host") = <<"d","b">>
       /\ ~CfgChanged(cfgHeap[BaseId], "host")

(***************************************************************************)
(* Discovery failures in NewDir.                                           *)
(***************************************************************************)
BadFile(q) == HasOptionFile(q) /\ fs[q].skeema \in {"unreadable", "unparsable"}

\* The directories of p the walk lists: from the stop, or from the first
\* level when the stop is the root of a longer path, down to p.
Visited(p) ==
  IF p = RootPath THEN {RootPath}
  ELSE {Prefix(p, k) : k \in (IF StopDepth(p) = 0 THEN 1 ELSE StopDepth(p))..Len(p)}

\* C11: a read or parse failure of the target's own override file makes
\* NewDir fail and return no Dir; a directory that does not exist never
\* makes it fail: NewDir fails only on a failing override file, and the
\* files of the existing directories above a missing one are still used.
C11_DiscoveryFailures ==
  lastCall.op = "NewDir" =>
    /\ BadFile(lastCall.path) => (~lastCall.ok /\ lastCall.created = {} /\ dirs = <<>>)
    /\ ~lastCall.ok => \E q \in Visited(lastCall.path) : BadFile(q)
    /\ lastCall.ok =>
         \A i \in lastCall.created :
           \A q \in Visited(lastCall.path) :
             HasOptionFile(q) => \E j \in 1..Len(AddedFiles(i)) : AddedFiles(i)[j] = q

\* NewDir on a path that does not exist below a missing ancestor succeeded
\* and took the override file of an existing directory above them.
C11_Witness ==
  /\ lastCall.op = "NewDir" /\ lastCall.ok
  /\ Len(lastCall.path) >= 3
  /\ ~Exists(lastCall.path)
  /\ ~Exists(Prefix(lastCall.path, Len(lastCall.path) - 1))
  /\ \E i \in lastCall.created : AddedFiles(i) # <<>>

====
